---- MODULE Spec2Model ----
(***************************************************************************)
(* Model of nest-json-store: the JsonStore service (get / set / delete /   *)
(* clear over a TypeORM repository of JsonStoreEntity rows) and the        *)
(* cleanup pass of JsonStoreCleanupService, run by concurrent callers      *)
(* against one table and one wall clock.                                   *)
(*                                                                         *)
(* Every `await` of a repository call is a point where other callers may   *)
(* run, so each handler is split at its awaits: the synchronous code up to *)
(* the repository call is one step, the execution of the call in the       *)
(* database (atomic at the row level) is part of the step that resumes.    *)
(***************************************************************************)
EXTENDS Integers, FiniteSets, Sequences, TLC

----------------------------------------------------------------------------
(* Bounds of the model *)

MaxTicks == 2
MaxOps == 3

(* Program constants *)

DEFAULT_TTL == 0
MsPerSecond == 1000

Procs == {"p1", "p2"}
Keys == {"a", "b"}

----------------------------------------------------------------------------
(* JavaScript values.  A value is a record [t, s]: t is its kind and s its *)
(* text (for objects and arrays: the text JSON.stringify yields).          *)

JsVal(t, s) == [t |-> t, s |-> s]

Undefined == JsVal("undefined", "undefined")
JsNull == JsVal("null", "null")
JsFalse == JsVal("boolean", "false")
JsTrue == JsVal("boolean", "true")
Obj == JsVal("object", "{\"a\":\"b\"}")
Arr == JsVal("array", "[1]")
Circular == JsVal("circular", "")
BigInt == JsVal("bigint", "10")
Str(s) == JsVal("string", s)
Num(s) == JsVal("number", s)

(* The values a JSON text can denote in this model. *)
JsonValues == {Obj, Arr, Str("hello"), Str("123"), Num("123"), JsTrue, JsNull}

(* Results that are not JavaScript data. *)
SavedEntity == JsVal("entity", "JsonStoreEntity")
DeleteResult == JsVal("DeleteResult", "")
SyntaxError == JsVal("throw", "SyntaxError")
TypeError == JsVal("throw", "TypeError")
QueryFailedError == JsVal("throw", "QueryFailedError")

(* The errors a repository call may reject with when the storage fails. *)
StorageErrors == {QueryFailedError}

(* value !== null && typeof value === "object" *)
isObject(v) == v.t \in {"object", "array", "circular"}

(* JSON.stringify of an object or array; a circular structure throws. *)
JSONStringify(v) ==
    IF v.t = "circular" THEN TypeError ELSE Str(v.s)

(* The JSON text of a value: strings are quoted, the rest is its text. *)
JSONText(v) ==
    IF v.t = "string" THEN "\"" \o v.s \o "\"" ELSE v.s

(* JSON.parse(x): x is first converted to a string (ToString), then parsed;*)
(* a text that is no JSON document throws SyntaxError.                     *)
JSONParse(x) ==
    IF \E v \in JsonValues : JSONText(v) = x.s
    THEN CHOOSE v \in JsonValues : JSONText(v) = x.s
    ELSE SyntaxError

----------------------------------------------------------------------------
(* Timestamps and entities *)

TsDate(t) == [k |-> "date", t |-> t]
TsNull == [k |-> "null", t |-> 0]
TsUndefined == [k |-> "undefined", t |-> 0]

Entity(k, d, e) == [key |-> k, data |-> d, exp |-> e]
NoEntity == Entity("", Undefined, TsUndefined)

(* IJsonStoreKeyOptions: options?.ttl, either may be left out. *)
NoOptions == [given |-> FALSE, ttl |-> 0]
TtlOption(n) == [given |-> TRUE, ttl |-> n]
Options == {NoOptions, TtlOption(0), TtlOption(1)}

(* const { ttl = DEFAULT_TTL } = options || {} *)
TtlOf(o) == IF o.given THEN o.ttl ELSE DEFAULT_TTL

----------------------------------------------------------------------------
(* The Record Repository: a TypeORM Repository<JsonStoreEntity> over the   *)
(* table json_store.  A table is a set of rows; the primary key is `key`.  *)

RowsOf(tbl, k) == {r \in tbl : r.key = k}

(* findOne({ where: { key } }): the row of that key, or nothing. *)
findOne(tbl, k) ==
    IF RowsOf(tbl, k) = {} THEN NoEntity ELSE CHOOSE r \in RowsOf(tbl, k) : TRUE

(* The column `data` is declared without `nullable`, so it is NOT NULL: a  *)
(* null payload is refused by the database, and so is an insert that       *)
(* leaves the column out.                                                  *)
violatesNotNull(tbl, e) ==
    \/ e.data.t = "null"
    \/ e.data.t = "undefined" /\ RowsOf(tbl, e.key) = {}

(* The column `data` is of type jsonb: the repository writes the payload   *)
(* as a JSON document, and a bigint has none (JSON.stringify throws).      *)
NoError == JsVal("none", "")
saveError(tbl, e) ==
    IF e.data.t = "bigint" THEN TypeError
    ELSE IF violatesNotNull(tbl, e) THEN QueryFailedError
    ELSE NoError

(* The row a save() leaves behind.  save() inserts when no row has the     *)
(* entity's primary key, and updates the existing row otherwise.  TypeORM  *)
(* skips every property of the entity that is undefined: on insert the     *)
(* column takes its default (NULL for expiration_date), on update the      *)
(* column keeps the value the row already has.                             *)
savedRow(tbl, e) ==
    LET old == findOne(tbl, e.key)
    IN  IF old = NoEntity
        THEN Entity(e.key, e.data, IF e.exp.k = "date" THEN e.exp ELSE TsNull)
        ELSE Entity(e.key,
                    IF e.data.t = "undefined" THEN old.data ELSE e.data,
                    IF e.exp.k = "undefined" THEN old.exp ELSE e.exp)

(* Variants of save with a fault: an insert that leaves the old row of the *)
(* key in place, and a write that drops the rows of the other keys.        *)
saveKeepsOldRow(tbl, e) ==
    IF saveError(tbl, e) # NoError THEN tbl ELSE tbl \cup {savedRow(tbl, e)}

saveDropsOtherRows(tbl, e) ==
    IF saveError(tbl, e) # NoError THEN tbl ELSE {savedRow(tbl, e)}

(* save(entity): the table afterwards. *)
save(tbl, e) ==
    IF saveError(tbl, e) # NoError
    THEN tbl
    ELSE (tbl \ RowsOf(tbl, e.key)) \cup {savedRow(tbl, e)}

(* A delete with a fault: it removes nothing. *)
deleteByKeyNoOp(tbl, k) == tbl

(* delete({ key }) *)
deleteByKey(tbl, k) == tbl \ RowsOf(tbl, k)

(* A bulk delete that spares the rows without expiration_date. *)
deleteAllWithExpiry(tbl) == {r \in tbl : r.exp.k # "date"}

(* delete({}) *)
deleteAll(tbl) == {}

(* A comparison that also takes the very instant `now`. *)
LessThanOrEqual(ts, now) == ts.k = "date" /\ ts.t <= now

(* LessThan(now) on expiration_date: NULL never compares less. *)
LessThan(ts, now) == ts.k = "date" /\ ts.t < now

(* delete({ expirationTimestamp: LessThan(now) }) *)
deleteExpired(tbl, now) == {r \in tbl : ~LessThan(r.exp, now)}

----------------------------------------------------------------------------
(* Pure parts of JsonStore *)

(* The expiry test with the comparison turned around. *)
isExpiredReversed(e, now) == e.exp.k = "date" /\ e.exp.t > now

(* An expiry test that takes every row with an expiration for expired. *)
isExpiredWhenDated(e, now) == e.exp.k = "date"

(* get, lines 36-39: expirationTimestamp && getTime() < Date.now() *)
isExpired(e, now) == e.exp.k = "date" /\ e.exp.t < now

(* A decoding without the catch: the exception of JSON.parse gets out. *)
decodeStrict(d) == JSONParse(d)

(* get, lines 46-51: JSON.parse(data), the raw data when parsing throws *)
decode(d) ==
    IF JSONParse(d) = SyntaxError THEN d ELSE JSONParse(d)

(* set, lines 64-79: the payload to store, or the exception caught *)
jsonValue(v) ==
    IF isObject(v) THEN JSONStringify(v) ELSE v

(* set, lines 85-86: ttl > 0 ? new Date(Date.now() + ttl * 1000) : undefined *)
expirationFor(ttl, now) ==
    IF ttl > 0 THEN TsDate(now + ttl * MsPerSecond) ELSE TsUndefined

----------------------------------------------------------------------------
(* JsonStoreCleanupService: options, timer handle, log lines *)

DefaultInterval == 3600
DefaultRunOnInit == TRUE

(* CleanupOptions as given to the constructor: each part may be left out. *)
GivenOptions(hasInterval, interval, hasRunOnInit, runOnInit) ==
    [hasInterval |-> hasInterval, interval |-> interval,
     hasRunOnInit |-> hasRunOnInit, runOnInit |-> runOnInit]

NoCleanupOptions == GivenOptions(FALSE, 0, FALSE, FALSE)

(* constructor, lines 58-61: options?.interval ?? 3600, runOnInit ?? true *)
RequiredOptions(o) ==
    [interval |-> IF o.hasInterval THEN o.interval ELSE DefaultInterval,
     runOnInit |-> IF o.hasRunOnInit THEN o.runOnInit ELSE DefaultRunOnInit]

(* intervalId: null, or the handle setInterval returned (1, 2, ...). *)
NoTimer == 0

(* A new instance.  tornDown, removed and counted are not fields of the    *)
(* service: tornDown records that onModuleDestroy has returned and         *)
(* onModuleInit was not invoked since; removed is the number of rows the   *)
(* passes of cleanup have removed from the table so far, counted the sum   *)
(* of the counts those passes returned.                                    *)
NewSweeper(o) ==
    [options |-> RequiredOptions(o), intervalId |-> NoTimer, tornDown |-> FALSE,
     removed |-> 0, counted |-> 0]

(* The runtime's timers: `made` handles were handed out so far, `armed`    *)
(* holds the repeating timers not yet cleared, `cleared` the handles given *)
(* to clearInterval, in order.                                             *)
NoTimers == [made |-> 0, armed |-> {}, cleared |-> <<>>]

Timer(id, period, due) == [id |-> id, period |-> period, due |-> due]

(* setInterval(callback, ms) at clock value now *)
setInterval(tm, ms, now) ==
    [tm EXCEPT !.made = @ + 1,
               !.armed = @ \cup {Timer(tm.made + 1, ms, now + ms)}]

(* clearInterval(id) *)
clearInterval(tm, id) ==
    [tm EXCEPT !.armed = {t \in @ : t.id # id},
               !.cleared = Append(@, id)]

(* The lines the service logs. *)
LogCleanedUp == "Cleaned up expired entries"
LogFailed == "Failed to clean up expired entries"
LogScheduledError == "Error during scheduled cleanup"
LogScheduled == "Scheduled cleanup every interval seconds"

(* A summary on every pass, also when nothing was removed. *)
summaryLogAlways(deletedCount) == <<LogCleanedUp>>

(* cleanup, lines 100-102: the summary only when something was removed *)
summaryLog(deletedCount) ==
    IF deletedCount > 0 THEN <<LogCleanedUp>> ELSE <<>>

----------------------------------------------------------------------------
(* State *)

VARIABLES
    table,   \* the rows of json_store
    clock,   \* Date.now(), in milliseconds
    pc,      \* pc[p]: where caller p stands in its current call
    entry,   \* entry[p]: storeEntry / foundItem / newStoreEntry of the call
    req,     \* req[p]: the value and ttl given to set, and the clock value
             \*   the call read (set line 86, cleanup line 91)
    res,     \* res[p]: the call p is making: operation, key, the repository
             \*   calls it issued so far, the clock value a get read (line
             \*   38), whether the get read the row of wr[key] or the pass
             \*   of the timer started after a failed one, whether a
             \*   delete, a clear or a pass met a logically expired row,
             \*   whether the row a get or delete removed is another than
             \*   the one its lookup found (for a get: one not expired),
             \*   whether a pass started while another was in flight, who
             \*   started a cleanup pass, the setInterval and clearInterval
             \*   calls it made and the lines it logged
    last,    \* the call that returned last, as res held it, with its result
    wr,      \* wr[k]: the last set of key k that returned success, kept
             \*   until a later set(k), delete(k) or clear() is invoked
    src,     \* src[p]: wr of the key at the lookup of p's get
    nops,    \* number of calls made so far
    sweeper, \* the JsonStoreCleanupService: its options and its intervalId
    timers   \* the timers of the runtime: those armed by setInterval and
             \*   not yet cleared, and how often clearInterval was given each

vars == <<table, clock, pc, entry, req, res, last, wr, src, nops, sweeper, timers>>

Pending == JsVal("pending", "")

NoReq == [val |-> Undefined, ttl |-> 0, now |-> 0]
NoWrite == [val |-> Undefined, ttl |-> 0, now |-> 0, state |-> "none"]
Call(op, k) ==
    [op |-> op, key |-> k, out |-> Pending, find |-> 0, save |-> 0, del |-> 0,
     now |-> 0, cov |-> FALSE, wasExpired |-> FALSE, raced |-> FALSE,
     by |-> "caller",
     setInterval |-> 0, clearInterval |-> 0, log |-> <<>>]

NoCall == Call("none", "")

(* The call returns `out`. *)
Return(p, r, out) ==
    /\ last' = [r EXCEPT !.out = out]
    /\ res' = [res EXCEPT ![p] = NoCall]
    /\ pc' = [pc EXCEPT ![p] = "idle"]

(* A row of key k was removed or replaced by a call other than the set     *)
(* recorded in wr[k] and other than a cleanup pass.                        *)
Touch(w, k) ==
    [w EXCEPT ![k] = IF @.state = "fresh" THEN [@ EXCEPT !.state = "touched"]
                     ELSE @]

(* The state after construction of the store and of a cleanup service     *)
(* given the options o.                                                    *)
Constructed(o) ==
    /\ table = {}
    /\ clock = 0
    /\ pc = [p \in Procs |-> "idle"]
    /\ entry = [p \in Procs |-> NoEntity]
    /\ req = [p \in Procs |-> NoReq]
    /\ res = [p \in Procs |-> NoCall]
    /\ last = NoCall
    /\ wr = [k \in Keys |-> NoWrite]
    /\ src = [p \in Procs |-> NoWrite]
    /\ nops = 0
    /\ sweeper = NewSweeper(o)
    /\ timers = NoTimers

Init == Constructed(NoCleanupOptions)

(* A caller starts a new call. *)
Begin(p) ==
    /\ pc[p] = "idle"
    /\ nops < MaxOps
    /\ nops' = nops + 1

----------------------------------------------------------------------------
(* JsonStore.set, lines 61-89 *)

(* Lines 62-88 up to the await: serialize, build the entity, call save. *)
SetCall(p, k, v, o) ==
    /\ Begin(p)
    /\ IF jsonValue(v) = TypeError
       THEN /\ Return(p, Call("set", k), JsFalse)
            /\ UNCHANGED <<entry, req>>
       ELSE /\ entry' = [entry EXCEPT ![p] =
                  Entity(k, jsonValue(v), expirationFor(TtlOf(o), clock))]
            /\ req' = [req EXCEPT ![p] =
                  [val |-> v, ttl |-> TtlOf(o), now |-> clock]]
            /\ res' = [res EXCEPT ![p] = [Call("set", k) EXCEPT !.save = 1]]
            /\ pc' = [pc EXCEPT ![p] = "set_saving"]
            /\ UNCHANGED last
    /\ wr' = [wr EXCEPT ![k] = NoWrite]
    /\ UNCHANGED <<table, clock, src>>
    /\ UNCHANGED <<sweeper, timers>>

(* Line 88: the repository executes save and set returns its result, or   *)
(* fails with the error of the repository.                                 *)
SetSave(p) ==
    /\ pc[p] = "set_saving"
    /\ table' = save(table, entry[p])
    /\ IF saveError(table, entry[p]) # NoError
       THEN /\ Return(p, res[p], saveError(table, entry[p]))
            /\ UNCHANGED wr
       ELSE /\ Return(p, res[p], SavedEntity)
            /\ wr' = [wr EXCEPT ![entry[p].key] =
                  [val |-> req[p].val, ttl |-> req[p].ttl, now |-> req[p].now,
                   state |-> "fresh"]]
    /\ entry' = [entry EXCEPT ![p] = NoEntity]
    /\ req' = [req EXCEPT ![p] = NoReq]
    /\ UNCHANGED <<clock, src, nops>>
    /\ UNCHANGED <<sweeper, timers>>

----------------------------------------------------------------------------
(* JsonStore.get, lines 29-52 *)

(* Lines 30-32: findOne executes. *)
GetFind(p, k) ==
    /\ Begin(p)
    /\ entry' = [entry EXCEPT ![p] = findOne(table, k)]
    /\ res' = [res EXCEPT ![p] = [Call("get", k) EXCEPT !.find = 1]]
    /\ src' = [src EXCEPT ![p] = wr[k]]
    /\ pc' = [pc EXCEPT ![p] = "get_found"]
    /\ UNCHANGED <<table, clock, req, last, wr>>
    /\ UNCHANGED <<sweeper, timers>>

(* Lines 33-51: get resumes with storeEntry, reads the clock and either    *)
(* returns or calls delete.                                                *)
GetCheck(p) ==
    /\ pc[p] = "get_found"
    /\ LET cov == src[p].state = "fresh" /\ wr[res[p].key] = src[p]
           r == [res[p] EXCEPT !.now = clock, !.cov = cov]
       IN  IF entry[p] = NoEntity
           THEN Return(p, r, Undefined)
           ELSE IF isExpired(entry[p], clock)
           THEN /\ res' = [res EXCEPT ![p] = [r EXCEPT !.del = @ + 1]]
                /\ pc' = [pc EXCEPT ![p] = "get_deleting"]
                /\ UNCHANGED last
           ELSE Return(p, r, decode(entry[p].data))
    /\ entry' = [entry EXCEPT ![p] = NoEntity]
    /\ src' = [src EXCEPT ![p] = NoWrite]
    /\ UNCHANGED <<table, clock, req, wr, nops>>
    /\ UNCHANGED <<sweeper, timers>>

(* A get whose delete spares a row that is not expired. *)
getDeleteSparesFresh(tbl, k, err) ==
    [table |-> IF err = NoError
               THEN {r \in tbl : r.key # k \/ ~isExpired(r, clock)}
               ELSE tbl,
     out |-> IF err = NoError THEN Undefined ELSE err]

(* A get that takes a failure of its delete for not-found. *)
getDeleteSwallows(tbl, k, err) ==
    [table |-> IF err = NoError THEN deleteByKey(tbl, k) ELSE tbl,
     out |-> Undefined]

(* Lines 40-41: await delete({ key }), return undefined.  The delete is    *)
(* awaited outside any try, so its failure is the failure of get.          *)
getDeleteOutcome(tbl, k, err) ==
    IF err = NoError
    THEN [table |-> deleteByKey(tbl, k), out |-> Undefined]
    ELSE [table |-> tbl, out |-> err]

(* Lines 40-41: the repository executes delete({ key }), or fails with     *)
(* err, and get returns or throws.                                         *)
GetDelete(p, err) ==
    /\ pc[p] = "get_deleting"
    /\ table' = getDeleteOutcome(table, res[p].key, err).table
    /\ Return(p, [res[p] EXCEPT !.raced =
                     err = NoError
                     /\ \E r \in RowsOf(table, res[p].key) : ~isExpired(r, clock)],
              getDeleteOutcome(table, res[p].key, err).out)
    /\ wr' = IF err = NoError THEN Touch(wr, res[p].key) ELSE wr
    /\ UNCHANGED <<clock, entry, req, src, nops>>
    /\ UNCHANGED <<sweeper, timers>>

----------------------------------------------------------------------------
(* JsonStore.delete, lines 96-102 *)

(* Lines 97-99: findOne executes. *)
DeleteFind(p, k) ==
    /\ Begin(p)
    /\ entry' = [entry EXCEPT ![p] = findOne(table, k)]
    /\ res' = [res EXCEPT ![p] = [Call("delete", k) EXCEPT !.find = 1]]
    /\ wr' = [wr EXCEPT ![k] = NoWrite]
    /\ pc' = [pc EXCEPT ![p] = "delete_found"]
    /\ UNCHANGED <<table, clock, req, last, src>>
    /\ UNCHANGED <<sweeper, timers>>

(* A test of the lookup that takes every key for present, and one that    *)
(* takes an expired row for absent.                                        *)
foundAlways(e) == TRUE

foundUnexpired(e) == e # NoEntity /\ ~isExpired(e, clock)

(* Line 98: if (!foundItem) *)
found(e) == e # NoEntity

(* A delete that removes the row its lookup found and no other, and       *)
(* reports not-found when that row is gone.                                *)
deleteOutcomeOfFoundRow(tbl, e, k) ==
    IF found(e) /\ e \in tbl
    THEN [table |-> tbl \ {e}, out |-> DeleteResult]
    ELSE [table |-> tbl, out |-> Undefined]

(* Lines 98-101: return undefined, or the result of delete({ key }), which *)
(* is by key alone.                                                        *)
deleteOutcome(tbl, e, k) ==
    IF ~found(e)
    THEN [table |-> tbl, out |-> Undefined]
    ELSE [table |-> deleteByKey(tbl, k), out |-> DeleteResult]

(* Lines 98-101: delete resumes with foundItem; the repository executes    *)
(* delete({ key }) when there is one.                                      *)
DeleteExec(p) ==
    /\ pc[p] = "delete_found"
    /\ table' = deleteOutcome(table, entry[p], res[p].key).table
    /\ IF ~found(entry[p])
       THEN /\ Return(p, res[p], deleteOutcome(table, entry[p], res[p].key).out)
            /\ UNCHANGED wr
       ELSE /\ Return(p, [res[p] EXCEPT !.del = @ + 1,
                             !.wasExpired = isExpired(entry[p], clock),
                             !.raced = /\ RowsOf(table, res[p].key) # {}
                                       /\ RowsOf(table, res[p].key) # {entry[p]}],
                      deleteOutcome(table, entry[p], res[p].key).out)
            /\ wr' = Touch(wr, res[p].key)
    /\ entry' = [entry EXCEPT ![p] = NoEntity]
    /\ UNCHANGED <<clock, req, src, nops>>
    /\ UNCHANGED <<sweeper, timers>>

----------------------------------------------------------------------------
(* JsonStore.clear, lines 108-110 *)

Clear(p) ==
    /\ Begin(p)
    /\ table' = deleteAll(table)
    /\ Return(p, [Call("clear", "") EXCEPT !.del = 1,
                     !.wasExpired = \E r \in table : isExpired(r, clock)],
              DeleteResult)
    /\ wr' = [k \in Keys |-> NoWrite]
    /\ UNCHANGED <<clock, entry, req, src>>
    /\ UNCHANGED <<sweeper, timers>>

----------------------------------------------------------------------------
(* JsonStoreCleanupService.cleanup, lines 90-109 *)

(* The call that returned last is a pass started by the timer whose bulk   *)
(* delete failed.                                                          *)
AfterScheduledFailure ==
    /\ last.op = "cleanup"
    /\ last.by = "setInterval"
    /\ \E i \in DOMAIN last.log : last.log[i] = LogFailed

(* Lines 91-97 up to the await: read the clock, call the bulk delete.  The *)
(* pass is started by a caller, by onModuleInit or by the timer.           *)
CleanupStarts(p, by) ==
    /\ req' = [req EXCEPT ![p] = [NoReq EXCEPT !.now = clock]]
    /\ res' = [res EXCEPT ![p] =
          [Call("cleanup", "") EXCEPT !.del = 1, !.by = by,
              !.cov = (by = "setInterval" /\ AfterScheduledFailure),
              !.raced = \E q \in Procs : pc[q] = "cleanup_deleting"]]
    /\ pc' = [pc EXCEPT ![p] = "cleanup_deleting"]

CleanupCall(p) ==
    /\ Begin(p)
    /\ CleanupStarts(p, "caller")
    /\ UNCHANGED <<table, clock, entry, last, wr, src, sweeper, timers>>

(* The number a pass returned; a pass that threw returned none. *)
CountOf(out, most) ==
    IF out.t = "number" /\ \E n \in 0..most : ToString(n) = out.s
    THEN CHOOSE n \in 0..most : ToString(n) = out.s
    ELSE 0

(* A pass that reports the rows that had an expiration instead of the rows *)
(* its delete affected.                                                    *)
cleanupCountsDated(tbl, now, err) ==
    [table |-> IF err = NoError THEN deleteExpired(tbl, now) ELSE tbl,
     out |-> IF err = NoError
             THEN Num(ToString(Cardinality({r \in tbl : r.exp.k = "date"})))
             ELSE err,
     log |-> IF err = NoError
             THEN summaryLog(Cardinality({r \in tbl : r.exp.k = "date"}))
             ELSE <<LogFailed>>]

(* A pass that takes a failure of the bulk delete for zero rows removed. *)
cleanupSwallows(tbl, now, err) ==
    [table |-> IF err = NoError THEN deleteExpired(tbl, now) ELSE tbl,
     out |-> IF err = NoError
             THEN Num(ToString(Cardinality(tbl) - Cardinality(deleteExpired(tbl, now))))
             ELSE Num("0"),
     log |-> IF err = NoError
             THEN summaryLog(Cardinality(tbl) - Cardinality(deleteExpired(tbl, now)))
             ELSE <<>>]

(* Lines 95-108: the bulk delete executes, or fails with err.  The table   *)
(* afterwards, what cleanup returns or throws, and what it logs.           *)
cleanupOutcome(tbl, now, err) ==
    IF err = NoError
    THEN LET deletedCount == Cardinality(tbl) - Cardinality(deleteExpired(tbl, now))
         IN  [table |-> deleteExpired(tbl, now),
              out |-> Num(ToString(deletedCount)),
              log |-> summaryLog(deletedCount)]
    ELSE [table |-> tbl, out |-> err, log |-> <<LogFailed>>]

(* A timer callback that gives up its timer when a pass fails. *)
scheduledOutcomeDisarms(o, tm, id) ==
    IF o.out.t = "throw"
    THEN [out |-> Undefined, log |-> o.log \o <<LogScheduledError>>,
          timers |-> [tm EXCEPT !.armed = {t \in @ : t.id # id}]]
    ELSE [out |-> o.out, log |-> o.log, timers |-> tm]

(* Lines 70-74: the callback of the timer, this.cleanup().catch(...): a    *)
(* failure of the pass is logged and goes no further.                      *)
scheduledOutcome(o, tm, id) ==
    IF o.out.t = "throw"
    THEN [out |-> Undefined, log |-> o.log \o <<LogScheduledError>>, timers |-> tm]
    ELSE [out |-> o.out, log |-> o.log, timers |-> tm]

(* The bulk delete executes (or fails with err) and cleanup returns to     *)
(* what started it: to the caller, to the callback of the timer, or to     *)
(* onModuleInit, which resumes in a later step.                            *)
CleanupExec(p, err) ==
    /\ pc[p] = "cleanup_deleting"
    /\ LET o == cleanupOutcome(table, req[p].now, err)
           s == scheduledOutcome(o, timers, sweeper.intervalId)
           r == [res[p] EXCEPT !.wasExpired =
                    \E x \in table : LessThan(x.exp, req[p].now)]
       IN  /\ table' = o.table
           /\ CASE r.by = "caller" ->
                     /\ Return(p, [r EXCEPT !.log = o.log], o.out)
                     /\ UNCHANGED timers
                [] r.by = "setInterval" ->
                     /\ Return(p, [r EXCEPT !.log = s.log], s.out)
                     /\ timers' = s.timers
                [] r.by = "onModuleInit" ->
                     /\ last' = [r EXCEPT !.log = o.log, !.out = o.out]
                     /\ res' = [res EXCEPT ![p] =
                           [Call("onModuleInit", "") EXCEPT
                               !.del = 1, !.log = o.log, !.out = o.out]]
                     /\ pc' = [pc EXCEPT ![p] = "init_resumed"]
                     /\ UNCHANGED timers
    /\ sweeper' = [sweeper EXCEPT
          !.removed = @ + Cardinality(table \ table'),
          !.counted = @ + CountOf(cleanupOutcome(table, req[p].now, err).out,
                                  Cardinality(table))]
    /\ req' = [req EXCEPT ![p] = NoReq]
    /\ UNCHANGED <<clock, entry, wr, src, nops>>

----------------------------------------------------------------------------
(* JsonStoreCleanupService.onModuleInit, lines 64-77 *)

(* Lines 70-76: arm the recurring timer, keep its handle, log the interval *)
(* and return.                                                             *)
ArmAndReturn(p, r, sw) ==
    /\ timers' = setInterval(timers, sw.options.interval * MsPerSecond, clock)
    /\ sweeper' = [sw EXCEPT !.intervalId = timers'.made]
    /\ Return(p, [r EXCEPT !.setInterval = @ + 1,
                           !.log = Append(@, LogScheduled)], Undefined)

(* Lines 65-66, and 70-76 when runOnInit is false. *)
OnModuleInit(p) ==
    /\ Begin(p)
    /\ IF sweeper.options.runOnInit
       THEN /\ CleanupStarts(p, "onModuleInit")
            /\ sweeper' = [sweeper EXCEPT !.tornDown = FALSE]
            /\ UNCHANGED <<timers, last>>
       ELSE /\ ArmAndReturn(p, Call("onModuleInit", ""),
                            [sweeper EXCEPT !.tornDown = FALSE])
            /\ UNCHANGED req
    /\ UNCHANGED <<table, clock, entry, wr, src>>

(* Line 66 after the await: the pass threw and onModuleInit throws the     *)
(* same, or the pass returned and lines 70-76 run.                         *)
InitResume(p) ==
    /\ pc[p] = "init_resumed"
    /\ IF res[p].out.t = "throw"
       THEN /\ Return(p, res[p], res[p].out)
            /\ UNCHANGED <<sweeper, timers>>
       ELSE ArmAndReturn(p, res[p], sweeper)
    /\ UNCHANGED <<table, clock, entry, req, wr, src, nops>>

----------------------------------------------------------------------------
(* JsonStoreCleanupService.onModuleDestroy, lines 79-84 *)

(* A teardown that clears the timer and keeps the handle. *)
OnModuleDestroyKeepsHandle(p) ==
    /\ Begin(p)
    /\ IF sweeper.intervalId # NoTimer
       THEN /\ timers' = clearInterval(timers, sweeper.intervalId)
            /\ sweeper' = [sweeper EXCEPT !.tornDown = TRUE]
            /\ Return(p, [Call("onModuleDestroy", "") EXCEPT !.clearInterval = 1],
                      Undefined)
       ELSE /\ sweeper' = [sweeper EXCEPT !.tornDown = TRUE]
            /\ Return(p, Call("onModuleDestroy", ""), Undefined)
            /\ UNCHANGED timers
    /\ UNCHANGED <<table, clock, entry, req, wr, src>>

OnModuleDestroy(p) ==
    /\ Begin(p)
    /\ IF sweeper.intervalId # NoTimer
       THEN /\ timers' = clearInterval(timers, sweeper.intervalId)
            /\ sweeper' = [sweeper EXCEPT !.intervalId = NoTimer, !.tornDown = TRUE]
            /\ Return(p, [Call("onModuleDestroy", "") EXCEPT !.clearInterval = 1],
                      Undefined)
       ELSE /\ sweeper' = [sweeper EXCEPT !.tornDown = TRUE]
            /\ Return(p, Call("onModuleDestroy", ""), Undefined)
            /\ UNCHANGED timers
    /\ UNCHANGED <<table, clock, entry, req, wr, src>>

----------------------------------------------------------------------------
(* The recurring timer, lines 70-74 *)

(* A timer that fires once and is not set again. *)
TimerFireOnce(p) ==
    \E t \in timers.armed :
        /\ t.due <= clock
        /\ pc[p] = "idle"
        /\ timers' = [timers EXCEPT !.armed = @ \ {t}]
        /\ CleanupStarts(p, "setInterval")
        /\ UNCHANGED <<table, clock, entry, last, wr, src, nops, sweeper>>

(* An armed timer whose time has come fires: it is set for its next        *)
(* period and its callback starts a cleanup pass.                          *)
TimerFire(p) ==
    \E t \in timers.armed :
        /\ t.due <= clock
        /\ pc[p] = "idle"
        /\ timers' = [timers EXCEPT !.armed =
              (@ \ {t}) \cup {[t EXCEPT !.due = clock + t.period]}]
        /\ CleanupStarts(p, "setInterval")
        /\ UNCHANGED <<table, clock, entry, last, wr, src, nops, sweeper>>

----------------------------------------------------------------------------
(* The clock advances by a millisecond or by a second. *)

Tick(d) ==
    /\ (clock % MsPerSecond) + (clock \div MsPerSecond) < MaxTicks
    /\ clock' = clock + d
    /\ UNCHANGED <<table, pc, entry, req, res, last, wr, src, nops>>
    /\ UNCHANGED <<sweeper, timers>>

(* What concurrent callers store: an object, a string whose text is JSON   *)
(* and a circular structure, with every form of options, under key "a",    *)
(* and one expiring entry under key "b".                                   *)
Values == {Obj, Str("123"), Circular}
Requests ==
    {<<"a", v, o>> : v \in Values, o \in Options} \cup {<<"b", Obj, TtlOption(1)>>}

Next ==
    \/ \E p \in Procs, r \in Requests : SetCall(p, r[1], r[2], r[3])
    \/ \E p \in Procs : SetSave(p)
    \/ \E p \in Procs, k \in Keys : GetFind(p, k)
    \/ \E p \in Procs : GetCheck(p)
    \/ \E p \in Procs : GetDelete(p, NoError)
    \/ \E p \in Procs, k \in Keys : DeleteFind(p, k)
    \/ \E p \in Procs : DeleteExec(p)
    \/ \E p \in Procs : Clear(p)
    \/ \E p \in Procs : CleanupCall(p)
    \/ \E p \in Procs : CleanupExec(p, NoError)
    \/ \E d \in {1, MsPerSecond} : Tick(d)

Spec == Init /\ [][Next]_vars

----------------------------------------------------------------------------
(* One caller, whose calls run one after the other.  It stores and reads   *)
(* back a value of every kind: object, array, strings that are and are not *)
(* JSON texts, number, boolean, null, and the values JSON.stringify throws *)
(* on: a circular structure and a bigint.                                  *)
AllValues == JsonValues \cup {Circular, BigInt}
AllRequests ==
    {<<"a", v, o>> : v \in AllValues, o \in Options} \cup {<<"b", Obj, TtlOption(1)>>}

NextOneCaller ==
    \/ \E r \in AllRequests : SetCall("p1", r[1], r[2], r[3])
    \/ SetSave("p1")
    \/ \E k \in Keys : GetFind("p1", k)
    \/ GetCheck("p1")
    \/ GetDelete("p1", NoError)
    \/ \E k \in Keys : DeleteFind("p1", k)
    \/ DeleteExec("p1")
    \/ Clear("p1")
    \/ CleanupCall("p1")
    \/ CleanupExec("p1", NoError)
    \/ \E d \in {1, MsPerSecond} : Tick(d)

SpecOneCaller == Init /\ [][NextOneCaller]_vars

----------------------------------------------------------------------------
(* The cleanup service through its life: constructed with some options,    *)
(* initialized and torn down by the module (also more than once, also      *)
(* while another call is in flight), its timer firing when due, its bulk   *)
(* delete succeeding or failing, while callers store entries that expire   *)
(* and entries that do not.                                                *)
SweeperOptions ==
    {NoCleanupOptions,
     GivenOptions(TRUE, 1, FALSE, FALSE),
     GivenOptions(TRUE, 1, TRUE, FALSE),
     GivenOptions(FALSE, 0, TRUE, FALSE)}
SweeperRequests == {<<"a", Obj, TtlOption(1)>>, <<"b", Obj, NoOptions>>}

InitSweeper == \E o \in SweeperOptions : Constructed(o)

NextSweeper ==
    \/ \E p \in Procs, r \in SweeperRequests : SetCall(p, r[1], r[2], r[3])
    \/ \E p \in Procs : SetSave(p)
    \/ \E p \in Procs : OnModuleInit(p)
    \/ \E p \in Procs : InitResume(p)
    \/ \E p \in Procs : OnModuleDestroy(p)
    \/ \E p \in Procs : TimerFire(p)
    \/ \E p \in Procs : CleanupCall(p)
    \/ \E p \in Procs, err \in {NoError} \cup StorageErrors : CleanupExec(p, err)
    \/ \E d \in {1, MsPerSecond} : Tick(d)

SpecSweeper == InitSweeper /\ [][NextSweeper]_vars

----------------------------------------------------------------------------
(* A store that already holds an entry: set("a", v, o) has completed at    *)
(* clock 0.  Two callers then read, overwrite, delete and clear that key   *)
(* while cleanup passes run and the clock advances; the delete a get       *)
(* issues for an expired row may fail.                                     *)
StoredValues == {Obj, Str("hello")}
StoredOptions == {NoOptions, TtlOption(1)}
StoredRequests == {<<"a", Str("123"), NoOptions>>, <<"a", Obj, TtlOption(1)>>}

InitStored ==
    \E v \in StoredValues, o \in StoredOptions :
        /\ table = save({}, Entity("a", jsonValue(v), expirationFor(TtlOf(o), 0)))
        /\ clock = 0
        /\ pc = [p \in Procs |-> "idle"]
        /\ entry = [p \in Procs |-> NoEntity]
        /\ req = [p \in Procs |-> NoReq]
        /\ res = [p \in Procs |-> NoCall]
        /\ last = NoCall
        /\ wr = [k \in Keys |->
              IF k = "a"
              THEN [val |-> v, ttl |-> TtlOf(o), now |-> 0, state |-> "fresh"]
              ELSE NoWrite]
        /\ src = [p \in Procs |-> NoWrite]
        /\ nops = 0
        /\ sweeper = NewSweeper(NoCleanupOptions)
        /\ timers = NoTimers

NextStored ==
    \/ \E p \in Procs, r \in StoredRequests : SetCall(p, r[1], r[2], r[3])
    \/ \E p \in Procs : SetSave(p)
    \/ \E p \in Procs : GetFind(p, "a")
    \/ \E p \in Procs : GetCheck(p)
    \/ \E p \in Procs, err \in {NoError} \cup StorageErrors : GetDelete(p, err)
    \/ \E p \in Procs : DeleteFind(p, "a")
    \/ \E p \in Procs : DeleteExec(p)
    \/ \E p \in Procs : Clear(p)
    \/ \E p \in Procs : CleanupCall(p)
    \/ \E p \in Procs : CleanupExec(p, NoError)
    \/ \E d \in {1, MsPerSecond} : Tick(d)

SpecStored == InitStored /\ [][NextStored]_vars

----------------------------------------------------------------------------
(* The cleanup service left to its timer, with time that passes.  The      *)
(* interval is one second and runOnInit is left to its default; callers    *)
(* set key "a" with a ttl of one second, start the service and tear it     *)
(* down, and nobody reads, deletes or clears.  The clock advances by whole *)
(* seconds up to Horizon.  The storage may fail the bulk delete of a pass  *)
(* at any time before Horizon and answers from then on.                    *)
Horizon == MaxTicks * MsPerSecond

FairOptions == {GivenOptions(TRUE, 1, FALSE, FALSE)}
FairRequests == {<<"a", Obj, TtlOption(1)>>}

InitFair == \E o \in FairOptions : Constructed(o)

(* The bulk delete of a pass executes, or fails while the storage is down. *)
CleanupAnswers(p) ==
    \/ CleanupExec(p, NoError)
    \/ \E err \in StorageErrors : clock < Horizon /\ CleanupExec(p, err)

NextFair ==
    \/ \E p \in Procs, r \in FairRequests : SetCall(p, r[1], r[2], r[3])
    \/ \E p \in Procs : SetSave(p)
    \/ \E p \in Procs : OnModuleInit(p)
    \/ \E p \in Procs : InitResume(p)
    \/ \E p \in Procs : OnModuleDestroy(p)
    \/ \E p \in Procs : TimerFire(p)
    \/ \E p \in Procs : CleanupAnswers(p)
    \/ Tick(MsPerSecond)

(* Time passes; the runtime runs the callback of a timer that is due (the  *)
(* event loop, lines 70-74); the repository answers every call awaited     *)
(* (lines 66, 88, 95).                                                     *)
Fairness ==
    /\ WF_vars(Tick(MsPerSecond))
    /\ WF_vars(\E p \in Procs : TimerFire(p))
    /\ \A p \in Procs :
          /\ WF_vars(SetSave(p))
          /\ WF_vars(InitResume(p))
          /\ WF_vars(CleanupAnswers(p))

SpecSweeperFair == InitFair /\ [][NextFair]_vars /\ Fairness

----------------------------------------------------------------------------
(* Steps of a caller, for the properties below *)

(* p's get resumes after its lookup (lines 33-51). *)
GetResumes(p) == pc[p] = "get_found" /\ pc'[p] # "get_found"

(* p's get returns from line 33 or line 47/50. *)
GetReturnsAtOnce(p) == pc[p] = "get_found" /\ pc'[p] = "idle"

(* p's get returns after its delete (line 41). *)
GetReturnsAfterDelete(p) == pc[p] = "get_deleting" /\ pc'[p] = "idle"

(* p's set returns the saved entity (line 88). *)
SetSucceeds(p) ==
    pc[p] = "set_saving" /\ pc'[p] = "idle" /\ last'.out = SavedEntity

(* The get of p looked up key k after the set recorded in wr[k] returned,  *)
(* and no set(k), delete(k) or clear() was invoked since.                  *)
ReadsWrite(p) ==
    /\ src[p].state # "none"
    /\ wr[res[p].key].state # "none"
    /\ [wr[res[p].key] EXCEPT !.state = "fresh"] = [src[p] EXCEPT !.state = "fresh"]

(* The same, and no call other than a cleanup pass removed the row since. *)
ReadsUntouchedWrite(p) ==
    ReadsWrite(p) /\ src[p].state = "fresh" /\ wr[res[p].key].state = "fresh"

(* p's delete resumes after its lookup and returns (lines 98-101). *)
DeleteReturns(p) == pc[p] = "delete_found" /\ pc'[p] = "idle"

(* A call that takes one step starts and returns. *)
ReturnsAtOnce(op) == nops' # nops /\ pc' = pc /\ last'.op = op

(* p's cleanup pass is invoked (lines 91-97). *)
PassStarts(p) == pc[p] = "idle" /\ pc'[p] = "cleanup_deleting"

(* p's cleanup pass resumes after its bulk delete and returns or throws. *)
PassEnds(p) == pc[p] = "cleanup_deleting" /\ pc'[p] # "cleanup_deleting"

(* The rows with an expiresAt strictly less than now. *)
ExpiredRows(tbl, now) == {r \in tbl : r.exp.k = "date" /\ r.exp.t < now}

(* The call r logged the line. *)
Logged(r, line) == \E i \in DOMAIN r.log : r.log[i] = line

(* An onModuleInit ends: at once (runOnInit false) or after its pass. *)
InitEnds ==
    \/ ReturnsAtOnce("onModuleInit")
    \/ \E p \in Procs : pc[p] = "init_resumed" /\ pc'[p] = "idle"

(* What a get of key k returns that looks up the table tbl and reads the   *)
(* clock value now (get, lines 30-51).                                     *)
Reads(tbl, k, now) ==
    IF findOne(tbl, k) = NoEntity \/ isExpired(findOne(tbl, k), now)
    THEN Undefined
    ELSE decode(findOne(tbl, k).data)

(* The service holds the handle of a timer and was not torn down since. *)
Running == sweeper.intervalId # NoTimer /\ ~sweeper.tornDown

(* The timer of the handle is set for a time the clock does not reach. *)
TimerBeyondHorizon ==
    \E t \in timers.armed : t.id = sweeper.intervalId /\ t.due > Horizon

(* The table holds a row of key k whose expiration has passed. *)
HoldsExpired(k) == \E r \in RowsOf(table, k) : LessThan(r.exp, clock)

(* The row set is to write for its arguments, by the words of the spec. *)
RowFor(k, v, ttl, now) ==
    Entity(k, jsonValue(v), IF ttl > 0 THEN TsDate(now + ttl * MsPerSecond) ELSE TsNull)

----------------------------------------------------------------------------
(* C1: whenever get returns a value, the row it read had no expiresAt or   *)
(* an expiresAt not strictly less than the clock value that get read; a    *)
(* get that evaluated its row as expired returns not-found, also in the    *)
(* call that deletes the row.                                              *)
C1_GetNeverReturnsExpired ==
    [][\A p \in Procs :
        /\ (GetReturnsAtOnce(p) /\ last'.out # Undefined) =>
              /\ entry[p] # NoEntity
              /\ entry[p].exp.k # "date" \/ ~(entry[p].exp.t < last'.now)
              /\ last'.now = clock
        /\ (GetResumes(p) /\ entry[p].exp.k = "date" /\ entry[p].exp.t < clock) =>
              pc'[p] = "get_deleting" /\ last' = last
        /\ GetReturnsAfterDelete(p) => last'.out = Undefined
      ]_vars

(* A get returned the value of a row whose expiresAt is the very instant   *)
(* the get read from the clock.                                            *)
C1_Witness ==
    /\ last.op = "get"
    /\ last.out = Obj
    /\ \E r \in table : r.key = last.key /\ r.exp = TsDate(last.now)

(* C2: once a set with ttl 0 or omitted has returned success, and no later *)
(* delete(k), clear() or set(k) is invoked, every get(k) that starts later *)
(* finds the entry.                                                        *)
C2_TtlZeroNeverExpires ==
    [][\A p \in Procs :
        (GetResumes(p) /\ ReadsWrite(p) /\ src[p].ttl <= 0) =>
            pc'[p] = "idle" /\ last'.out # Undefined
      ]_vars

(* C3: after set(k, v, ttl = T > 0) at clock t0, with no other operation   *)
(* touching k, get(k) at a clock t <= t0 + T returns v and at t > t0 + T   *)
(* returns not-found.                                                      *)
C3_TtlRoundTrip ==
    [][\A p \in Procs :
        (GetResumes(p) /\ ReadsUntouchedWrite(p) /\ src[p].ttl > 0) =>
            IF clock <= src[p].now + src[p].ttl * MsPerSecond
            THEN pc'[p] = "idle" /\ last'.out = src[p].val
            ELSE \/ pc'[p] = "get_deleting"
                 \/ pc'[p] = "idle" /\ last'.out = Undefined
      ]_vars

(* C4: a get that finds a row whose expiresAt is strictly less than the    *)
(* clock issues exactly one delete for its key and returns not-found, and  *)
(* when it returns no row of that key is in the table.                     *)
C4_ExpiryTriggersDeletion ==
    [][\A p \in Procs :
        /\ (GetResumes(p) /\ entry[p].exp.k = "date" /\ entry[p].exp.t < clock) =>
              pc'[p] = "get_deleting" /\ res'[p].del = 1
        /\ GetReturnsAfterDelete(p) =>
              /\ last'.out = Undefined
              /\ last'.del = 1 /\ last'.find = 1 /\ last'.save = 0
              /\ RowsOf(table', res[p].key) = {}
              /\ table \ table' = RowsOf(table, res[p].key)
              /\ table' \subseteq table
      ]_vars

(* A get found an expired row, deleted it and returned not-found. *)
C4_Witness ==
    /\ last.op = "get"
    /\ last.del = 1
    /\ last.out = Undefined
    /\ last.cov
    /\ RowsOf(table, last.key) = {}

(* C5: a set on a key that has a row replaces the row in full: afterwards  *)
(* the row carries the payload of this set and an expiresAt determined     *)
(* only by this set's options (absent for ttl 0 or omitted).               *)
C5_OverwriteReplacesInFull ==
    [][\A p \in Procs :
        SetSucceeds(p) =>
            RowsOf(table', entry[p].key) =
                {RowFor(entry[p].key, req[p].val, req[p].ttl, req[p].now)}
      ]_vars

(* C6: the table holds at most one row per key. *)
C6_OneRowPerKey ==
    /\ \A k \in Keys : Cardinality(RowsOf(table, k)) <= 1
    /\ \A r \in table : r.key \in Keys

(* A set overwrote the row of its key, with another payload, and the       *)
(* table holds one row of that key.                                        *)
C6_Witness ==
    /\ last.op = "set"
    /\ last.out = SavedEntity
    /\ nops = 2
    /\ Cardinality(RowsOf(table, last.key)) = 1
    /\ \E r \in table : r.exp.k = "date" /\ r.data = Str("123")
    /\ wr[last.key].state = "fresh" /\ wr[last.key].ttl = 0

(* C7: set(k, v) followed by get(k) returns a value equal to v and of the  *)
(* same type, also for strings whose text is valid JSON.                   *)
C7_ValueRoundTrip ==
    [][\A p \in Procs :
        (GetResumes(p) /\ ReadsUntouchedWrite(p) /\ src[p].ttl <= 0
           /\ entry[p] = RowFor(res[p].key, src[p].val, src[p].ttl, src[p].now)) =>
            pc'[p] = "idle" /\ last'.out = src[p].val
      ]_vars

(* C8: a set given a value that cannot be serialized returns false, issues *)
(* no repository write and leaves the table as it was.                     *)
C8_SerializationFailureIsNoOp ==
    [][\A p \in Procs, k \in Keys, v \in AllValues \ JsonValues, o \in Options :
        SetCall(p, k, v, o) =>
            /\ last' = [Call("set", k) EXCEPT !.out = JsFalse]
            /\ last'.save = 0
            /\ table' = table
            /\ pc'[p] = "idle"
      ]_vars

(* C9: a successful set with ttl > 0 at clock time now writes a row whose  *)
(* expiresAt is now + ttl seconds; with ttl 0 or omitted the row written   *)
(* has no expiresAt; no set writes a row whose expiresAt is present and    *)
(* not strictly after the write time.                                      *)
C9_ExpiresAtFromTtl ==
    [][\A p \in Procs :
        SetSucceeds(p) =>
            \A r \in RowsOf(table', entry[p].key) :
                /\ req[p].ttl > 0 =>
                      r.exp = TsDate(req[p].now + req[p].ttl * MsPerSecond)
                /\ req[p].ttl <= 0 => r.exp.k # "date"
                /\ r.exp.k = "date" => r.exp.t > req[p].now
      ]_vars

(* C10: a successful set issues exactly one save and no findOne or delete, *)
(* and leaves every row of the other keys as it was.                       *)
C10_SetFrame ==
    [][\A p \in Procs :
        SetSucceeds(p) =>
            /\ last'.save = 1 /\ last'.find = 0 /\ last'.del = 0
            /\ {r \in table' : r.key # entry[p].key} =
               {r \in table : r.key # entry[p].key}
            /\ RowsOf(table', entry[p].key) # {}
      ]_vars

(* A set returned success while a row of another key is in the table. *)
C10_Witness ==
    /\ last.op = "set"
    /\ last.out = SavedEntity
    /\ RowsOf(table, last.key) # {}
    /\ \E r \in table : r.key # last.key

(* C11: a delete whose lookup finds no row of the key returns not-found,   *)
(* issues no repository delete, and neither its lookup nor its return      *)
(* changes the table.                                                      *)
C11_DeleteAbsentIsNoOp ==
    [][\A p \in Procs :
        /\ (pc[p] = "idle" /\ pc'[p] = "delete_found") => table' = table
        /\ (DeleteReturns(p) /\ entry[p] = NoEntity) =>
              /\ last'.op = "delete" /\ last'.out = Undefined
              /\ last'.del = 0 /\ last'.find = 1 /\ last'.save = 0
              /\ table' = table
      ]_vars

(* A delete of a key without a row returned not-found while the table      *)
(* holds a row of another key.                                             *)
C11_Witness ==
    /\ last.op = "delete"
    /\ last.out = Undefined
    /\ last.del = 0
    /\ RowsOf(table, last.key) = {}
    /\ table # {}

(* C12: a delete whose lookup finds a row issues one repository delete and *)
(* returns the deletion acknowledgment, whether or not the row is          *)
(* logically expired, and when it returns no row of the key is in the      *)
(* table; the rows of the other keys stay.                                 *)
C12_DeletePresentRemoves ==
    [][\A p \in Procs :
        (DeleteReturns(p) /\ entry[p] # NoEntity) =>
            /\ last'.op = "delete" /\ last'.out = DeleteResult
            /\ last'.del = 1 /\ last'.find = 1 /\ last'.save = 0
            /\ RowsOf(table', res[p].key) = {}
            /\ {r \in table' : r.key # res[p].key} =
               {r \in table : r.key # res[p].key}
      ]_vars

(* A delete found a row that was logically expired, removed it and         *)
(* returned the acknowledgment.                                            *)
C12_Witness ==
    /\ last.op = "delete"
    /\ last.out = DeleteResult
    /\ last.wasExpired
    /\ RowsOf(table, last.key) = {}

(* C13: clear issues one bulk delete, no lookup and no save, and when it   *)
(* returns the table holds no row, whatever the expiry of the rows it held.*)
C13_ClearEmptiesTable ==
    [][ReturnsAtOnce("clear") =>
            /\ table' = {}
            /\ last'.out = DeleteResult
            /\ last'.del = 1 /\ last'.find = 0 /\ last'.save = 0
      ]_vars

(* A clear returned after removing a logically expired row, and the table  *)
(* is empty.                                                               *)
C13_Witness ==
    /\ last.op = "clear"
    /\ last.wasExpired
    /\ table = {}
    /\ wr = [k \in Keys |-> NoWrite]

(* C14: a cleanup pass that succeeds reads the clock when it is invoked,   *)
(* removes exactly the rows whose expiresAt is present and strictly less   *)
(* than that clock value, leaves every other row as it was, and returns    *)
(* the number of rows it removed.                                          *)
C14_CleanupRemovesExactlyExpired ==
    [][\A p \in Procs :
        /\ PassStarts(p) => req'[p].now = clock /\ table' = table
        /\ (PassEnds(p) /\ last'.out.t = "number") =>
              /\ table \ table' = ExpiredRows(table, req[p].now)
              /\ table' \subseteq table
              /\ last'.out = Num(ToString(Cardinality(table \ table')))
              /\ last'.op = "cleanup" /\ last'.del = 1
      ]_vars

(* A pass removed one row and left a row whose expiresAt is not below the  *)
(* clock value the pass read.                                              *)
C14_Witness ==
    /\ last.op = "cleanup"
    /\ last.out = Num("1")
    /\ \E r \in table : r.exp.k = "date"

(* C15: a cleanup pass whose bulk delete finds no row with an expiresAt    *)
(* below the clock value the pass read returns 0, leaves the table as it   *)
(* was and logs nothing; a pass logs its summary, once, exactly when the   *)
(* count it returns is greater than zero.                                  *)
C15_SummaryOnlyWhenRemoved ==
    [][\A p \in Procs :
        /\ (PassEnds(p) /\ last'.out.t = "number"
              /\ ExpiredRows(table, req[p].now) = {}) =>
              /\ last'.out = Num("0")
              /\ table' = table
              /\ last'.log = <<>>
        /\ PassEnds(p) =>
              /\ Logged(last', LogCleanedUp) <=>
                    (last'.out.t = "number" /\ last'.out # Num("0"))
              /\ Logged(last', LogCleanedUp) => last'.log = <<LogCleanedUp>>
      ]_vars

(* A pass found nothing expired in a table that holds rows, returned 0 and *)
(* logged nothing.                                                         *)
C15_Witness ==
    /\ last.op = "cleanup"
    /\ last.out = Num("0")
    /\ last.log = <<>>
    /\ \E r \in table : r.exp.k = "date"
    /\ \E r \in table : r.exp.k # "date"

(* C16: when the bulk delete of a pass started by the timer fails, the     *)
(* error is logged by the pass and by the callback of the timer and goes   *)
(* no further, and the timers, the handle and the table stay as they are;  *)
(* no step but a teardown that holds its handle takes an armed timer away; *)
(* and every firing of a timer starts a cleanup pass.                      *)
C16_ScheduledFailureKeepsTimer ==
    [][/\ \A p \in Procs :
            (res[p].by = "setInterval" /\ \E err \in StorageErrors : CleanupExec(p, err)) =>
                /\ last'.log = <<LogFailed, LogScheduledError>>
                /\ last'.out.t # "throw"
                /\ pc'[p] = "idle"
                /\ timers' = timers
                /\ sweeper' = sweeper
                /\ table' = table
       /\ \A t \in timers.armed :
            (\A u \in timers'.armed : u.id # t.id) =>
                /\ ReturnsAtOnce("onModuleDestroy")
                /\ last'.clearInterval = 1
                /\ sweeper.intervalId = t.id
       /\ \A t \in timers.armed :
            (\E u \in timers'.armed : u.id = t.id /\ u.due # t.due) =>
                \E p \in Procs : PassStarts(p) /\ res'[p].by = "setInterval"
      ]_vars

(* A pass started by the timer failed, and then the timer, still armed     *)
(* under the handle the service holds, fired again and started a pass.     *)
C16_Witness ==
    /\ AfterScheduledFailure
    /\ \E p \in Procs :
          /\ pc[p] = "cleanup_deleting"
          /\ res[p].by = "setInterval"
          /\ res[p].cov
    /\ \E t \in timers.armed : t.id = sweeper.intervalId

(* C17: when the bulk delete of a cleanup pass invoked by a caller fails,  *)
(* the pass logs the error and throws that same error to its caller, it    *)
(* returns no count, and the table stays as it was.                        *)
C17_ManualFailurePropagates ==
    [][\A p \in Procs, err \in StorageErrors :
        (res[p].by = "caller" /\ CleanupExec(p, err)) =>
            /\ last'.op = "cleanup"
            /\ last'.out = err
            /\ last'.log = <<LogFailed>>
            /\ last'.del = 1
            /\ pc'[p] = "idle"
            /\ table' = table
      ]_vars

(* A pass invoked by a caller threw the storage error, and the row it was  *)
(* to remove is still in the table.                                        *)
C17_Witness ==
    /\ last.op = "cleanup"
    /\ last.by = "caller"
    /\ last.out \in StorageErrors
    /\ last.wasExpired
    /\ \E r \in table : LessThan(r.exp, clock)

(* C18: with runOnInit true, onModuleInit starts one cleanup pass and arms *)
(* no timer before that pass has completed; with runOnInit false it starts *)
(* no pass; in both cases an onModuleInit, when it ends, has armed exactly *)
(* one recurring timer, whose period is the configured interval in         *)
(* seconds.                                                                *)
C18_InitializationOrdering ==
    [][/\ \A p \in Procs :
            /\ (PassStarts(p) /\ res'[p].by = "onModuleInit") =>
                  /\ sweeper.options.runOnInit
                  /\ timers' = timers
            /\ (pc[p] = "cleanup_deleting" /\ res[p].by = "onModuleInit"
                  /\ pc'[p] # "cleanup_deleting") =>
                  /\ pc'[p] = "init_resumed"
                  /\ timers' = timers
       /\ InitEnds =>
            /\ last'.del = (IF sweeper.options.runOnInit THEN 1 ELSE 0)
            /\ last'.setInterval = 1
            /\ timers'.armed = timers.armed \cup
                  {Timer(sweeper'.intervalId,
                         sweeper.options.interval * MsPerSecond,
                         clock + sweeper.options.interval * MsPerSecond)}
            /\ Cardinality(timers'.armed) = Cardinality(timers.armed) + 1
      ]_vars

(* C19: an onModuleDestroy that finds the handle set cancels that timer    *)
(* with one clearInterval and nulls the handle; one that finds the handle  *)
(* null calls no clearInterval and changes neither timers nor table; the   *)
(* handle is null after every teardown, so a second teardown in a row      *)
(* changes nothing; no handle is ever given to clearInterval twice.        *)
C19_TeardownIdempotent ==
    [][/\ ReturnsAtOnce("onModuleDestroy") =>
            /\ IF sweeper.intervalId # NoTimer
               THEN /\ \E t \in timers.armed : t.id = sweeper.intervalId
                    /\ last'.clearInterval = 1
                    /\ timers'.cleared = Append(timers.cleared, sweeper.intervalId)
                    /\ timers'.armed =
                          {t \in timers.armed : t.id # sweeper.intervalId}
               ELSE /\ last'.clearInterval = 0
                    /\ timers' = timers
            /\ sweeper'.intervalId = NoTimer
            /\ last'.out = Undefined
            /\ table' = table
       /\ \A i, j \in DOMAIN timers'.cleared :
            i # j => timers'.cleared[i] # timers'.cleared[j]
      ]_vars

(* The service was initialized and torn down, and a further teardown found *)
(* the handle null and called no clearInterval.                            *)
C19_Witness ==
    /\ last.op = "onModuleDestroy"
    /\ last.clearInterval = 0
    /\ Len(timers.cleared) = 1
    /\ timers.armed = {}
    /\ sweeper.intervalId = NoTimer

(* C20: once an onModuleDestroy has returned, and until onModuleInit is    *)
(* invoked anew, no timer of the service is armed and no firing of a timer *)
(* starts a cleanup pass.                                                  *)
C20_NothingArmedAfterTeardown ==
    [][/\ sweeper'.tornDown => timers'.armed = {}
       /\ sweeper.tornDown =>
            \A p \in Procs : ~(PassStarts(p) /\ res'[p].by = "setInterval")
      ]_vars

(* C21: the delete a get issues for an expired row is by key alone: it     *)
(* removes the row the table holds then, also a row that is not expired    *)
(* and that a set wrote, returning success, after the lookup of the get;   *)
(* a get that looks the key up after that removal and finds no row         *)
(* returns not-found.  (The race is the witness below.)                    *)
C21_GetSetRace ==
    [][\A p \in Procs :
        /\ (GetReturnsAfterDelete(p) /\ last'.out = Undefined) =>
              /\ RowsOf(table', res[p].key) = {}
              /\ wr[res[p].key].state = "fresh" =>
                    wr'[res[p].key] = [wr[res[p].key] EXCEPT !.state = "touched"]
        /\ (GetResumes(p) /\ src[p].state = "touched" /\ entry[p] = NoEntity) =>
              pc'[p] = "idle" /\ last'.out = Undefined
      ]_vars

(* A get found an expired row; a set of the key then wrote a fresh row     *)
(* and returned success; the delete of the get removed that row; and a     *)
(* later get has looked the key up and found nothing, although the entry   *)
(* was not deleted or cleared and is not expired.                          *)
C21_Witness ==
    /\ last.op = "get" /\ last.del = 1 /\ last.raced /\ last.out = Undefined
    /\ wr["a"].state = "touched"
    /\ wr["a"].now > 0
    /\ wr["a"].ttl > 0
    /\ clock <= wr["a"].now + wr["a"].ttl * MsPerSecond
    /\ \E p \in Procs :
          /\ pc[p] = "get_found"
          /\ res[p].key = "a"
          /\ src[p] = wr["a"]
          /\ entry[p] = NoEntity

----------------------------------------------------------------------------
(* C23: when the delete that follows get's finding of an expired row      *)
(* fails with a storage error, get fails with that very error: its result  *)
(* is neither a payload nor undefined, and the table is left as it was, so *)
(* the rows of the key are still there.  A key loses its rows only in the  *)
(* return of a get, a delete, a clear or a cleanup pass.                   *)
C23_GetDeleteFailurePropagates ==
    [][/\ \A p \in Procs : \A err \in StorageErrors :
            GetDelete(p, err) =>
               /\ last'.op = "get" /\ last'.del = 1
               /\ last'.out = err /\ last'.out.t = "throw"
               /\ table' = table
        /\ \A k \in Keys :
            (RowsOf(table, k) # {} /\ RowsOf(table', k) = {}) =>
               last'.op \in {"get", "delete", "clear", "cleanup"}
      ]_vars

(* A get has failed with the storage error of its delete, and the row it   *)
(* took for expired is still in the table.                                 *)
C23_Witness ==
    /\ last.op = "get" /\ last.del = 1 /\ last.out \in StorageErrors
    /\ \E r \in RowsOf(table, last.key) : isExpired(r, last.now)

----------------------------------------------------------------------------
(* C24: a get that finds a row which is not expired never throws, whatever *)
(* the payload: when the payload is no JSON document, get returns the      *)
(* stored payload itself.                                                  *)
C24_UnparsablePayloadReturnedRaw ==
    [][\A p \in Procs :
        (GetResumes(p) /\ entry[p] # NoEntity
           /\ (entry[p].exp.k # "date" \/ entry[p].exp.t >= clock)) =>
            /\ pc'[p] = "idle" /\ last'.op = "get"
            /\ last'.out.t # "throw"
            /\ JSONParse(entry[p].data) = SyntaxError =>
                  last'.out = entry[p].data
      ]_vars

(* A get has returned the stored text hello, which is no JSON document. *)
C24_Witness ==
    /\ last.op = "get" /\ last.out = Str("hello")
    /\ JSONParse(Str("hello")) = SyntaxError
    /\ \E r \in RowsOf(table, last.key) : r.data = Str("hello") /\ ~isExpired(r, clock)

----------------------------------------------------------------------------
(* C25: a get that finds no row, or a row whose expiration is absent or    *)
(* not before the clock, issues one findOne and neither save nor delete,   *)
(* and neither its lookup nor its return changes the table.                *)
C25_PlainGetIsReadOnly ==
    [][\A p \in Procs :
        /\ (pc[p] = "idle" /\ pc'[p] = "get_found") =>
              /\ table' = table
              /\ res'[p].find = 1 /\ res'[p].save = 0 /\ res'[p].del = 0
        /\ (GetResumes(p)
              /\ (entry[p] = NoEntity \/ entry[p].exp.k # "date"
                     \/ entry[p].exp.t >= clock)) =>
              /\ pc'[p] = "idle" /\ last'.op = "get"
              /\ last'.find = 1 /\ last'.save = 0 /\ last'.del = 0
              /\ table' = table
      ]_vars

(* A get has returned the value of a row that has an expiration and has    *)
(* not expired, after one findOne and no delete, and the row is still in   *)
(* the table.                                                              *)
C25_Witness ==
    /\ last.op = "get" /\ last.find = 1 /\ last.del = 0 /\ last.out = Obj
    /\ \E r \in RowsOf(table, last.key) :
          r.exp.k = "date" /\ r.exp.t >= clock /\ decode(r.data) = Obj

----------------------------------------------------------------------------
(* C26: an onModuleInit with runOnInit true, when it ends, has armed the   *)
(* recurring timer and holds its handle, also when its cleanup pass threw  *)
(* a storage error.                                                        *)
C26_InitAlwaysArmsTimer ==
    [][(InitEnds /\ sweeper.options.runOnInit) =>
          /\ last'.op = "onModuleInit"
          /\ sweeper'.intervalId # NoTimer
          /\ \E t \in timers'.armed :
                /\ t.id = sweeper'.intervalId
                /\ t.period = sweeper.options.interval * MsPerSecond
      ]_vars

----------------------------------------------------------------------------
(* C27: a delete whose lookup found a row removes, when it resumes, every  *)
(* row of the key that is in the table by then, be it the row found or a   *)
(* row a set has written since, and returns the acknowledgment of the      *)
(* repository also when no row of the key is left to remove.  Both         *)
(* interleavings occur (C27_Witness).                                      *)
C27_DeleteSetRace ==
    [][\A p \in Procs :
        (DeleteReturns(p) /\ entry[p] # NoEntity) =>
            /\ last'.op = "delete" /\ last'.out = DeleteResult
            /\ table' = table \ RowsOf(table, res[p].key)
      ]_vars

(* A delete has looked up the row of the first set, a second set has saved *)
(* another row and returned, and the delete has removed that row and       *)
(* returned the acknowledgment; another delete, which had looked up the    *)
(* row of the second set, is about to resume and finds it gone.            *)
C27_Witness ==
    /\ last.op = "delete" /\ last.raced /\ last.out = DeleteResult
    /\ RowsOf(table, "a") = {}
    /\ \E p \in Procs :
          /\ pc[p] = "delete_found" /\ res[p].key = "a"
          /\ entry[p] # NoEntity
          /\ entry[p].data = Str("123")

----------------------------------------------------------------------------
(* C28: passes of cleanup, also when several are in flight at once, count  *)
(* every row they remove once: a pass that returns a number removes as     *)
(* many rows in the step of its bulk delete and all of them were in the    *)
(* table until then, a pass that throws removes none, and the counts all   *)
(* passes have returned so far add up to the number of rows the passes     *)
(* have removed.                                                           *)
C28_PassesCountEachRowOnce ==
    [][/\ sweeper'.counted = sweeper'.removed
       /\ \A p \in Procs :
            PassEnds(p) =>
               /\ table' \subseteq table
               /\ last'.out.t \in {"number", "undefined"} =>
                     Cardinality(table \ table') =
                        sweeper'.counted - sweeper.counted
               /\ last'.out.t = "number" =>
                     last'.out = Num(ToString(Cardinality(table \ table')))
               /\ last'.out.t = "throw" => table' = table
      ]_vars

(* Two passes were in flight at once, the second started by the timer; one *)
(* of them has removed the expired row and returned 1, and the one started *)
(* while the other was in flight has returned 0 last.                      *)
C28_Witness ==
    /\ last.op = "cleanup" /\ last.raced /\ last.by = "setInterval"
    /\ last.out = Num("0")
    /\ sweeper.removed = 1 /\ sweeper.counted = 1

----------------------------------------------------------------------------
(* C29: every row a cleanup pass removes has an expiresAt strictly below   *)
(* the clock value the pass read; and the row of a key whose last set has  *)
(* returned success, with ttl 0 or with a clock value not before the one   *)
(* the pass read, is left in place by the pass.                            *)
C29_PassSparesFreshValues ==
    [][\A p \in Procs :
        PassEnds(p) =>
            /\ \A r \in table \ table' :
                  r.exp.k = "date" /\ r.exp.t < req[p].now
            /\ \A k \in Keys :
                  (wr[k].state = "fresh"
                     /\ (wr[k].ttl <= 0 \/ wr[k].now >= req[p].now)) =>
                        RowsOf(table', k) = RowsOf(table, k)
      ]_vars

----------------------------------------------------------------------------
(* C30: with one caller, a cleanup pass put between two operations changes *)
(* the result of no get.  A pass run after any step leaves every key with  *)
(* the result a get had without it; and a set whose save executes on the   *)
(* table a pass has just cleaned leaves every key with the result a get    *)
(* has after the save on the table as it is.                               *)
C30_SweeperInvisibleToReaders ==
    [][\A k \in Keys :
        /\ Reads(deleteExpired(table', clock'), k, clock') = Reads(table', k, clock')
        /\ (pc["p1"] = "set_saving" /\ pc'["p1"] = "idle") =>
              Reads(save(deleteExpired(table, clock), entry["p1"]), k, clock)
                 = Reads(table', k, clock)
      ]_vars

----------------------------------------------------------------------------
(* C22: eventual reclamation.  When the service is running and a row of a  *)
(* key k that is set has expired, then eventually no expired row of k is in the table  *)
(* or the service has been torn down, although no get, delete or clear is  *)
(* ever called and passes fail while the storage is down.  Left out are    *)
(* the states in which the next firing of the timer lies beyond the last   *)
(* clock value.                                                            *)
C22_EventualReclamation ==
    \A k \in {r[1] : r \in FairRequests} :
        (Running /\ HoldsExpired(k) /\ ~TimerBeyondHorizon)
            ~> (~HoldsExpired(k) \/ ~Running)

(* The pass of the timer failed while the storage was down; the timer      *)
(* fired again a period later and that pass has removed the expired row.   *)
C22_Witness ==
    /\ Running
    /\ last.op = "cleanup" /\ last.by = "setInterval" /\ last.cov
    /\ last.out = Num("1") /\ last.wasExpired
    /\ RowsOf(table, "a") = {}
    /\ clock = Horizon

----------------------------------------------------------------------------
(* C31: at most one timer armed by the service is armed at any time, and   *)
(* every timer that is armed is the one the handle of the service refers   *)
(* to.                                                                     *)
C31_OneTimerOwned ==
    /\ Cardinality(timers.armed) <= 1
    /\ \A t \in timers.armed : t.id = sweeper.intervalId
====
